---------------------------- MODULE Spec2Model ----------------------------
(***************************************************************************)
(* PyBrowser (src/main.py): the URL normalizer, the hostname resolver and  *)
(* the navigation controller of a one-window web browser.                  *)
(*                                                                         *)
(* A Python str is a sequence of one-character strings, so that strip(),   *)
(* "in", "+", str.join and the f-strings are computed character by         *)
(* character.                                                              *)
(***************************************************************************)
EXTENDS Integers, Sequences, FiniteSets

VARIABLES
    input,      \* argument of the function under call (pure-function runs)
    output,     \* what that call produced
    pc,         \* "call" before the function ran, "done" after, "gui" in the browser
    address,    \* PyBrowser.address.text()
    status,     \* PyBrowser.status.text()
    title,      \* PyBrowser.windowTitle()
    progress,   \* percent of the last loadProgress the view emitted, NoProgress before
    calls       \* the event handled last, then the calls its handler made, in order

vars == <<input, output, pc, address, status, title, progress, calls>>

-----------------------------------------------------------------------------
(* Bounds of the model *)

MaxLen == 5        \* longest text handed to normalize_url
MaxRecords == 3    \* most records one getaddrinfo answer holds
MaxTyped == 1      \* longest text typed into the address field

-----------------------------------------------------------------------------
(* String literals of src/main.py *)

SchemeSep == <<":", "/", "/">>
HttpPrefix == <<"h", "t", "t", "p", ":", "/", "/">>
ExampleHost == <<"e", "x", "a", "m", "p", "l", "e", ".", "c", "o", "m">>
DefaultUrl == <<"h", "t", "t", "p", ":", "/", "/">> \o ExampleHost
HomeUrl == <<"h", "t", "t", "p", "s", ":", "/", "/">> \o ExampleHost

\* the characters str.strip() removes (str.isspace), as far as the inputs hold them
Whitespace == {" ", "\t", "\n"}

-----------------------------------------------------------------------------
(* str operations *)

RECURSIVE lstrip(_)
lstrip(s) ==
    IF s = <<>> THEN s
    ELSE IF Head(s) \in Whitespace THEN lstrip(Tail(s))
    ELSE s

RECURSIVE rstrip(_)
rstrip(s) ==
    IF s = <<>> THEN s
    ELSE IF s[Len(s)] \in Whitespace THEN rstrip(SubSeq(s, 1, Len(s) - 1))
    ELSE s

strip(s) == rstrip(lstrip(s))

\* sub in s
RECURSIVE In(_, _)
In(sub, s) ==
    IF Len(s) < Len(sub) THEN FALSE
    ELSE IF SubSeq(s, 1, Len(sub)) = sub THEN TRUE
    ELSE In(sub, Tail(s))

-----------------------------------------------------------------------------
(* normalize_url *)

\* the default lacks its scheme
normalize_url_bare_default(text) ==
    LET t == strip(text)
    IN  IF t = <<>> THEN ExampleHost
        ELSE IF ~In(SchemeSep, t) THEN HttpPrefix \o t
        ELSE t

\* the prefix is added without looking for a scheme
normalize_url_always_prefix(text) ==
    LET t == strip(text)
    IN  IF t = <<>> THEN DefaultUrl ELSE HttpPrefix \o t

\* the text is not stripped
normalize_url_no_strip(text) ==
    IF text = <<>> THEN DefaultUrl
    ELSE IF ~In(SchemeSep, text) THEN HttpPrefix \o text
    ELSE text

normalize_url(text) ==
    LET t == strip(text)
    IN  IF t = <<>> THEN DefaultUrl
        ELSE IF ~In(SchemeSep, t) THEN HttpPrefix \o t
        ELSE t

-----------------------------------------------------------------------------
(* Texts *)

SeqsUpTo(S, n) == UNION {[1..k -> S] : k \in 0..n}

NormalizeAlphabet == {" ", "\t", ":", "/", "a"}

SampleTexts ==
    { ExampleHost,
      HomeUrl,
      DefaultUrl,
      <<" ">> \o HomeUrl \o <<"\n">>,
      <<"a", " ", "b">>,
      <<"f", "t", "p", ":", "/", "/", "a", "/", "b">>,
      <<"a", "b", " ", ":", "/", "/", " ", "c">> }

NormalizeInputs == SeqsUpTo(NormalizeAlphabet, MaxLen) \cup SampleTexts

-----------------------------------------------------------------------------
(* The browser's state while a pure function is exercised *)

NoProgress == -1
Ready == <<"R", "e", "a", "d", "y">>
PyBrowserTitle == <<"P", "y", "B", "r", "o", "w", "s", "e", "r">>

NoBrowser ==
    /\ address = <<>>
    /\ status = <<>>
    /\ title = <<>>
    /\ progress = NoProgress
    /\ calls = <<>>

-----------------------------------------------------------------------------
(* normalize_url applied to every input *)

InitNormalize ==
    /\ input \in NormalizeInputs
    /\ output = <<>>
    /\ pc = "call"
    /\ NoBrowser

CallNormalize ==
    /\ pc = "call"
    /\ output' = normalize_url(input)
    /\ pc' = "done"
    /\ UNCHANGED <<input, address, status, title, progress, calls>>

NextNormalize == CallNormalize

SpecNormalize == InitNormalize /\ [][NextNormalize]_vars

-----------------------------------------------------------------------------
(* Python calls: what a call produced, a value returned or an exception raised *)

Return(v) == [raised |-> FALSE, value |-> v, exc |-> "", msg |-> <<>>]
Raise(cls, text) == [raised |-> TRUE, value |-> <<>>, exc |-> cls, msg |-> text]

\* the classes of the exceptions met here, each with its base classes (its MRO)
Mro(cls) ==
    CASE cls = "gaierror" -> {"gaierror", "OSError", "Exception", "BaseException"}
      [] cls = "OSError" -> {"OSError", "Exception", "BaseException"}
      [] cls = "UnicodeError" ->
            {"UnicodeError", "ValueError", "Exception", "BaseException"}
      [] cls = "ValueError" -> {"ValueError", "Exception", "BaseException"}
      [] OTHER -> {cls, "BaseException"}

\* "except handler:" catches an exception of class cls
Catches(handler, cls) == handler \in Mro(cls)

-----------------------------------------------------------------------------
(* The system resolver: socket.getaddrinfo(hostname, None) *)

Ip4a == <<"1", ".", "1", ".", "1", ".", "1">>
Ip4b == <<"8", ".", "8", ".", "4", ".", "4">>
Ip6a == <<":", ":", "1">>

\* (family, type, proto, canonname, sockaddr)
AddrInfo(fam, stype, sockaddr) == <<fam, stype, "0", <<>>, sockaddr>>

Records ==
    {AddrInfo("AF_INET", st, <<ip, "0">>) :
        st \in {"SOCK_STREAM", "SOCK_DGRAM"}, ip \in {Ip4a, Ip4b}}
    \cup
    {AddrInfo("AF_INET6", st, <<Ip6a, "0", "0", "0">>) :
        st \in {"SOCK_STREAM", "SOCK_DGRAM"}}

UnknownHost == <<"N", "a", "m", "e", " ", "n", "o", "t", " ", "k", "n", "o", "w", "n">>
Unreachable == <<"U", "n", "r", "e", "a", "c", "h", "a", "b", "l", "e">>
BadLabel == <<"l", "a", "b", "e", "l", " ", "t", "o", "o", " ", "l", "o", "n", "g">>

\* what the resolver does for one call: records found, or an exception
Found(infos) == [ok |-> TRUE, infos |-> infos, exc |-> "", msg |-> <<>>]
Failed(cls, text) == [ok |-> FALSE, infos |-> <<>>, exc |-> cls, msg |-> text]

Failures ==
    { Failed("gaierror", UnknownHost),
      Failed("OSError", Unreachable),
      Failed("UnicodeError", BadLabel) }

Answers == {Found(infos) : infos \in SeqsUpTo(Records, MaxRecords)} \cup Failures

getaddrinfo(hostname, answer) ==
    IF answer.ok THEN Return(answer.infos) ELSE Raise(answer.exc, answer.msg)

-----------------------------------------------------------------------------
(* resolve_dns *)

Elems(s) == {s[i] : i \in 1..Len(s)}

\* the for loop appends every address
RECURSIVE collect_ips_no_test(_, _)
collect_ips_no_test(infos, ips) ==
    IF infos = <<>> THEN ips
    ELSE collect_ips_no_test(Tail(infos), Append(ips, Head(infos)[5][1]))

\* the for loop of resolve_dns over the records left, ips collected so far
RECURSIVE collect_ips(_, _)
collect_ips(infos, ips) ==
    IF infos = <<>> THEN ips
    ELSE LET sockaddr == Head(infos)[5]
             ip == sockaddr[1]
         IN  collect_ips(Tail(infos),
                         IF ip \notin Elems(ips) THEN Append(ips, ip) ELSE ips)

\* "except socket.gaierror:" in place of "except Exception:"
resolve_dns_except_gaierror(hostname, answer) ==
    LET r == getaddrinfo(hostname, answer)
    IN  IF r.raised
        THEN IF Catches("gaierror", r.exc) THEN Return(<<>>) ELSE r
        ELSE Return(collect_ips(r.value, <<>>))

resolve_dns(hostname, answer) ==
    LET r == getaddrinfo(hostname, answer)
    IN  IF r.raised
        THEN IF Catches("Exception", r.exc) THEN Return(<<>>) ELSE r
        ELSE Return(collect_ips(r.value, <<>>))

-----------------------------------------------------------------------------
(* resolve_dns applied to every answer of the resolver *)

ResolveHostnames == {<<>>, <<"a">>, ExampleHost}

InitResolve ==
    /\ input \in [hostname : ResolveHostnames, answer : Answers]
    /\ output = <<>>
    /\ pc = "call"
    /\ NoBrowser

CallResolve ==
    /\ pc = "call"
    /\ output' = resolve_dns(input.hostname, input.answer)
    /\ pc' = "done"
    /\ UNCHANGED <<input, address, status, title, progress, calls>>

NextResolve == CallResolve

SpecResolve == InitResolve /\ [][NextResolve]_vars


-----------------------------------------------------------------------------
(* urllib.parse.urlparse(url).hostname *)

UpperCase == <<"A", "B", "C", "D", "E", "F", "G", "H", "I", "J", "K", "L", "M">>
    \o <<"N", "O", "P", "Q", "R", "S", "T", "U", "V", "W", "X", "Y", "Z">>
LowerCase == <<"a", "b", "c", "d", "e", "f", "g", "h", "i", "j", "k", "l", "m">>
    \o <<"n", "o", "p", "q", "r", "s", "t", "u", "v", "w", "x", "y", "z">>
Digits == {"0", "1", "2", "3", "4", "5", "6", "7", "8", "9"}
Letters == Elems(UpperCase) \cup Elems(LowerCase)
SchemeChars == Letters \cup Digits \cup {"+", "-", "."}

lower_char(c) ==
    IF c \in Elems(UpperCase)
    THEN LowerCase[CHOOSE i \in 1..Len(UpperCase) : UpperCase[i] = c]
    ELSE c

\* str.lower()
lower(s) == [i \in 1..Len(s) |-> lower_char(s[i])]

\* s with the characters of drop removed
RECURSIVE remove_chars(_, _)
remove_chars(s, drop) ==
    IF s = <<>> THEN s
    ELSE IF Head(s) \in drop THEN remove_chars(Tail(s), drop)
    ELSE <<Head(s)>> \o remove_chars(Tail(s), drop)

\* position of the first character of s at or after from that is in set, Len(s) + 1 if none
RECURSIVE find_first(_, _, _)
find_first(s, set, from) ==
    IF from > Len(s) THEN Len(s) + 1
    ELSE IF s[from] \in set THEN from
    ELSE find_first(s, set, from + 1)

\* position of the last character of s at or before from that is in set, 0 if none
RECURSIVE find_last(_, _, _)
find_last(s, set, from) ==
    IF from < 1 THEN 0
    ELSE IF s[from] \in set THEN from
    ELSE find_last(s, set, from - 1)

InvalidIPv6 ==
    <<"I", "n", "v", "a", "l", "i", "d", " ", "I", "P", "v", "6", " ", "U", "R", "L">>

\* urlsplit: the scheme and the netloc of url, or ValueError. A netloc holding
\* both "[" and "]" is taken as it stands (no text of the model holds "]").
urlparse(url) ==
    LET u == remove_chars(lstrip(url), {"\t", "\n", "\r"})
        colon == find_first(u, {":"}, 1)
        has_scheme ==
            /\ 2 <= colon
            /\ colon <= Len(u)
            /\ u[1] \in Letters
            /\ \A k \in 1..(colon - 1) : u[k] \in SchemeChars
        scheme == IF has_scheme THEN lower(SubSeq(u, 1, colon - 1)) ELSE <<>>
        rest == IF has_scheme THEN SubSeq(u, colon + 1, Len(u)) ELSE u
        has_netloc == Len(rest) >= 2 /\ SubSeq(rest, 1, 2) = <<"/", "/">>
        delim == find_first(rest, {"/", "?", "#"}, 3)
        netloc == IF has_netloc THEN SubSeq(rest, 3, delim - 1) ELSE <<>>
        open == "[" \in Elems(netloc)
        close == "]" \in Elems(netloc)
    IN  IF (open /\ ~close) \/ (close /\ ~open)
        THEN Raise("ValueError", InvalidIPv6)
        ELSE Return([scheme |-> scheme, netloc |-> netloc])

\* ParseResult.hostname: None, or the host in lower case
hostname_of(parsed) ==
    LET netloc == parsed.netloc
        at == find_last(netloc, {"@"}, Len(netloc))
        hostinfo == SubSeq(netloc, at + 1, Len(netloc))
        br == find_first(hostinfo, {"["}, 1)
        bracketed == SubSeq(hostinfo, br + 1, Len(hostinfo))
        host ==
            IF br <= Len(hostinfo)
            THEN SubSeq(bracketed, 1, find_first(bracketed, {"]"}, 1) - 1)
            ELSE SubSeq(hostinfo, 1, find_first(hostinfo, {":"}, 1) - 1)
    IN  IF host = <<>> THEN [none |-> TRUE, str |-> <<>>]
        ELSE [none |-> FALSE, str |-> lower(host)]

\* x or ""
or_empty(x) == IF x.none \/ x.str = <<>> THEN <<>> ELSE x.str


-----------------------------------------------------------------------------
(* Formatting: str(int), str.join and the f-strings of load_from_address *)

DigitChars == <<"0", "1", "2", "3", "4", "5", "6", "7", "8", "9">>

\* str(n) for n >= 0
RECURSIVE str_int(_)
str_int(n) ==
    IF n < 10 THEN <<DigitChars[n + 1]>>
    ELSE str_int(n \div 10) \o <<DigitChars[(n % 10) + 1]>>

\* sep.join(items)
RECURSIVE join(_, _)
join(sep, items) ==
    IF items = <<>> THEN <<>>
    ELSE IF Len(items) = 1 THEN items[1]
    ELSE items[1] \o sep \o join(sep, Tail(items))

CommaSpace == <<",", " ">>
DnsLabel == <<"D", "N", "S", ":", " ">>
Arrow == <<" ", "→", " ">>
NoResult == <<"(", "n", "o", " ", "r", "e", "s", "u", "l", "t", ")">>
DnsErrorLabel == <<"D", "N", "S", " ", "e", "r", "r", "o", "r", ":", " ">>
TitleLabel == PyBrowserTitle \o <<" ", " ", " ">>

-----------------------------------------------------------------------------
(* The embedded view and the widgets *)

\* QUrl(text), and QUrl.toString(): the URL is kept as its string
QUrl(text) == [url |-> text]
toString(qurl) == qurl.url

Call1(name) == <<name>>
Call2(name, arg) == <<name, arg>>
LookupCall(hostname, answer) == <<"getaddrinfo", hostname, answer>>

-----------------------------------------------------------------------------
(* PyBrowser.load_from_address: the status text it sets and the calls it    *)
(* makes, for the address text and the resolver's answer                     *)

\* ips = resolve_dns(hostname): what the call produced, and the lookup it made
lookup(hostname, answer) ==
    [ hostname |-> hostname,
      result |-> resolve_dns(hostname, answer),
      lookups |-> <<LookupCall(hostname, answer)>> ]

\* the try block: hostname = urlparse(url_text).hostname or "", then the lookup;
\* parsed is what urlparse(url_text) produced
try_block(parsed, answer) ==
    IF parsed.raised
    THEN [hostname |-> <<>>, result |-> parsed, lookups |-> <<>>]
    ELSE lookup(or_empty(hostname_of(parsed.value)), answer)

\* the addresses are joined by "," and the two branches of "if ips" are swapped
status_text_swapped(hostname, result) ==
    IF result.raised THEN DnsErrorLabel \o result.msg
    ELSE IF result.value = <<>>
    THEN DnsLabel \o hostname \o Arrow \o join(<<",">>, result.value)
    ELSE DnsLabel \o hostname \o Arrow \o NoResult

\* the text handed to status.setText: "if ips", "else" and "except Exception as e"
status_text(hostname, result) ==
    IF result.raised THEN DnsErrorLabel \o result.msg
    ELSE IF result.value # <<>>
    THEN DnsLabel \o hostname \o Arrow \o join(CommaSpace, result.value)
    ELSE DnsLabel \o hostname \o Arrow \o NoResult

\* view.load sits inside the try block
handler_calls_load_in_try(url_text, tried) ==
    [ returned |-> TRUE,
      status |-> status_text(tried.hostname, tried.result),
      calls |-> tried.lookups
                \o <<Call2("status.setText", status_text(tried.hostname, tried.result))>>
                \o IF tried.result.raised THEN <<>>
                   ELSE <<Call2("view.load", QUrl(url_text))>> ]

\* the handler after the try block was tried: the status set by the try block or
\* by "except Exception", then view.load(QUrl(url_text)).
\* returned: the handler ran to its end (no exception left it)
handler_calls(url_text, tried) ==
    IF tried.result.raised /\ ~Catches("Exception", tried.result.exc)
    THEN [returned |-> FALSE, status |-> <<>>, calls |-> tried.lookups]
    ELSE [ returned |-> TRUE,
           status |-> status_text(tried.hostname, tried.result),
           calls |-> tried.lookups
                     \o <<Call2("status.setText",
                                status_text(tried.hostname, tried.result)),
                          Call2("view.load", QUrl(url_text))>> ]

\* what is navigated to: url_text = normalize_url(self.address.text())
navigate(url_text, answer) ==
    handler_calls(url_text, try_block(urlparse(url_text), answer))

load_from_address(text, answer) == navigate(normalize_url(text), answer)

-----------------------------------------------------------------------------
(* Inputs of the browser *)

TypedAlphabet == {"a", "B", ":", "/", " ", "["}

TypedSamples ==
    { ExampleHost,
      <<" ", "a", ":", "/", "/", "B", "[">>,
      <<"a", ":", "/", "/", "U", "@", "B", ":", "8", "/", "[">>,
      <<":", "/", "/", "a">> }

TypedTexts == SeqsUpTo(TypedAlphabet, MaxTyped) \cup TypedSamples

\* the URLs the view reports in urlChanged
ViewUrls ==
    { QUrl(HomeUrl \o <<"/">>),
      QUrl(<<"a", "b", "o", "u", "t", ":", "b", "l", "a", "n", "k">>),
      QUrl(<<>>) }

\* the percentages the view reports in loadProgress, among 0..100
Percents == {0, 7, 42, 100}

\* the resolver's answers to the browser's lookups
BrowserAnswers ==
    { Failed("gaierror", UnknownHost),
      Failed("UnicodeError", BadLabel),
      Found(<<AddrInfo("AF_INET", "SOCK_STREAM", <<Ip4a, "0">>)>>),
      Found(<<AddrInfo("AF_INET6", "SOCK_STREAM", <<Ip6a, "0", "0", "0">>),
              AddrInfo("AF_INET6", "SOCK_DGRAM", <<Ip6a, "0", "0", "0">>),
              AddrInfo("AF_INET", "SOCK_STREAM", <<Ip4a, "0">>),
              AddrInfo("AF_INET", "SOCK_DGRAM", <<Ip4a, "0">>)>>),
      Found(<<AddrInfo("AF_INET", "SOCK_STREAM", <<Ip4b, "0">>),
              AddrInfo("AF_INET", "SOCK_STREAM", <<Ip4a, "0">>),
              AddrInfo("AF_INET", "SOCK_DGRAM", <<Ip4b, "0">>)>>) }

\* every text the address field can hold
AddressTexts == TypedTexts \cup {HomeUrl} \cup {toString(qurl) : qurl \in ViewUrls}

\* load_from_address, tabulated once over the address texts and the answers
Navigations ==
    { [text |-> text, answer |-> answer, result |-> load_from_address(text, answer)] :
        text \in AddressTexts, answer \in BrowserAnswers }

Navigation(text, answer) ==
    (CHOOSE n \in Navigations : n.text = text /\ n.answer = answer).result

-----------------------------------------------------------------------------
(* PyBrowser *)

NoCall == input = <<>> /\ output = <<>> /\ pc = "gui"

\* PyBrowser.__init__: the window as app.exec() finds it
Init ==
    /\ NoCall
    /\ \E answer \in BrowserAnswers :
          LET r == Navigation(HomeUrl, answer)
          IN  /\ address = HomeUrl
              /\ status = IF r.returned THEN r.status ELSE Ready
              /\ calls = <<Call1("__init__"),
                           Call2("setWindowTitle", PyBrowserTitle),
                           Call2("address.setText", HomeUrl)>> \o r.calls
    /\ title = PyBrowserTitle
    /\ progress = NoProgress

\* the user edits the address field
TextEdited(text) ==
    /\ address' = text
    /\ calls' = <<Call2("textEdited", text)>>
    /\ UNCHANGED <<status, title, progress, input, output, pc>>

\* load_from_address as the slot of go_btn.clicked and of address.returnPressed
LoadFromAddress(event, answer) ==
    LET r == Navigation(address, answer)
    IN  /\ status' = IF r.returned THEN r.status ELSE status
        /\ calls' = <<event>> \o r.calls
        /\ UNCHANGED <<address, title, progress, input, output, pc>>

GoClicked(answer) == LoadFromAddress(Call2("clicked", "go_btn"), answer)

ReturnPressed(answer) == LoadFromAddress(Call2("returnPressed", "address"), answer)

\* load_from_address runs before the address field is set
go_home_stale(answer) ==
    LET r == Navigation(address, answer)
    IN  /\ address' = HomeUrl
        /\ status' = IF r.returned THEN r.status ELSE status
        /\ calls' = <<Call2("clicked", "home_btn")>> \o r.calls
                    \o <<Call2("address.setText", HomeUrl)>>
        /\ UNCHANGED <<title, progress, input, output, pc>>

go_home(answer) ==
    LET r == Navigation(HomeUrl, answer)
    IN  /\ address' = HomeUrl
        /\ status' = IF r.returned THEN r.status ELSE status
        /\ calls' = <<Call2("clicked", "home_btn"), Call2("address.setText", HomeUrl)>>
                    \o r.calls
        /\ UNCHANGED <<title, progress, input, output, pc>>

\* back_btn, fwd_btn and reload_btn are connected to the view itself
ViewButton(button, slot) ==
    /\ calls' = <<Call2("clicked", button), Call1(slot)>>
    /\ UNCHANGED <<address, status, title, progress, input, output, pc>>

BackClicked == ViewButton("back_btn", "view.back")
ForwardClicked == ViewButton("fwd_btn", "view.forward")
ReloadClicked == ViewButton("reload_btn", "view.reload")

\* the handler navigates to the URL it was told of
on_url_changed_reload(qurl) ==
    \E answer \in BrowserAnswers :
        LET r == Navigation(toString(qurl), answer)
        IN  /\ address' = toString(qurl)
            /\ status' = IF r.returned THEN r.status ELSE status
            /\ calls' = <<Call2("urlChanged", qurl),
                          Call2("address.setText", toString(qurl))>> \o r.calls
            /\ UNCHANGED <<title, progress, input, output, pc>>

on_url_changed(qurl) ==
    /\ address' = toString(qurl)
    /\ calls' = <<Call2("urlChanged", qurl), Call2("address.setText", toString(qurl))>>
    /\ UNCHANGED <<status, title, progress, input, output, pc>>

\* the title is not put back at 100
on_load_progress_no_reset(percent) ==
    /\ progress' = percent
    /\ title' = TitleLabel \o str_int(percent) \o <<"%">>
    /\ calls' = <<Call2("loadProgress", percent),
                  Call2("setWindowTitle", TitleLabel \o str_int(percent) \o <<"%">>)>>
    /\ UNCHANGED <<address, status, input, output, pc>>

on_load_progress(percent) ==
    LET shown == TitleLabel \o str_int(percent) \o <<"%">>
    IN  /\ progress' = percent
        /\ title' = IF percent = 100 THEN PyBrowserTitle ELSE shown
        /\ calls' = <<Call2("loadProgress", percent), Call2("setWindowTitle", shown)>>
                    \o IF percent = 100
                       THEN <<Call2("setWindowTitle", PyBrowserTitle)>>
                       ELSE <<>>
        /\ UNCHANGED <<address, status, input, output, pc>>

Next ==
    \/ \E text \in TypedTexts : TextEdited(text)
    \/ \E answer \in BrowserAnswers : GoClicked(answer)
    \/ \E answer \in BrowserAnswers : ReturnPressed(answer)
    \/ \E answer \in BrowserAnswers : go_home(answer)
    \/ BackClicked
    \/ ForwardClicked
    \/ ReloadClicked
    \/ \E qurl \in ViewUrls : on_url_changed(qurl)
    \/ \E percent \in Percents : on_load_progress(percent)

Spec == Init /\ [][Next]_vars


-----------------------------------------------------------------------------
(* Vocabulary of the properties *)

\* s holds sub as a run of consecutive characters
HasRun(s, sub) ==
    \E i \in 1..(Len(s) - Len(sub) + 1) : SubSeq(s, i, i + Len(sub) - 1) = sub

AllWhitespace(s) == \A i \in 1..Len(s) : s[i] \in Whitespace

\* s[i..j] is s without its leading and trailing whitespace
IsTrim(s, i, j) ==
    /\ \A k \in 1..(i - 1) : s[k] \in Whitespace
    /\ \A k \in (j + 1)..Len(s) : s[k] \in Whitespace
    /\ i <= j => (s[i] \notin Whitespace /\ s[j] \notin Whitespace)

\* the address of each record of a resolver answer
AddressesOf(infos) == [i \in 1..Len(infos) |-> infos[i][5][1]]

\* index of the first record whose address is ip
FirstIndex(addrs, ip) ==
    CHOOSE i \in 1..Len(addrs) :
        addrs[i] = ip /\ \A j \in 1..(i - 1) : addrs[j] # ip

\* the entries of addrs at their first occurrence, in order
RECURSIVE FirstSeen(_, _)
FirstSeen(addrs, n) ==
    IF n = 0 THEN <<>>
    ELSE IF \E j \in 1..(n - 1) : addrs[j] = addrs[n]
    THEN FirstSeen(addrs, n - 1)
    ELSE Append(FirstSeen(addrs, n - 1), addrs[n])

\* the handler that ran last, and the calls of a kind it made
Kind == calls[1][1]
CallsTo(name) == SelectSeq(calls, LAMBDA c : c[1] = name)
PositionsOf(name) == {i \in 1..Len(calls) : calls[i][1] = name}

\* the last handler was an explicit navigation: Go, Enter, Home or start-up
Navigated ==
    /\ pc = "gui"
    /\ \/ Kind = "__init__"
       \/ Kind = "returnPressed"
       \/ Kind = "clicked" /\ calls[1][2] \in {"go_btn", "home_btn"}

\* what hostname extraction makes of the address text that was navigated to
Extraction == urlparse(normalize_url(address))
ExtractedHost == or_empty(hostname_of(Extraction.value))

\* the addresses the lookup of the last navigation resolved to
ResolvedIps ==
    LET answer == CallsTo("getaddrinfo")[1][3]
    IN  IF answer.ok
        THEN FirstSeen(AddressesOf(answer.infos), Len(answer.infos))
        ELSE <<>>

-----------------------------------------------------------------------------
(* Properties of normalize_url (SpecNormalize) *)

\* C1: for every input text, normalize_url returns a non-empty string that
\* holds the scheme separator "://".
C1_NormalizedHasScheme ==
    pc = "done" => output # <<>> /\ HasRun(output, SchemeSep)

\* C1 witness: a text with "://" in its middle, not at its start, was normalized.
C1_Witness ==
    /\ pc = "done"
    /\ input = <<"a", "b", " ", ":", "/", "/", " ", "c">>
    /\ output = input

\* C2: normalize_url is idempotent: normalizing its result changes nothing, so
\* a text of the form scheme://host is not prefixed a second time.
C2_NormalizeIdempotent ==
    pc = "done" => normalize_url(output) = output

\* C2 witness: "http://" was prepended once, and the result holds it once.
C2_Witness ==
    /\ pc = "done"
    /\ input = ExampleHost
    /\ output = HttpPrefix \o ExampleHost

\* C3: with t the input without leading and trailing whitespace, the result is
\* the default URL if t is empty, "http://" followed by t if t holds no "://",
\* and t itself otherwise.
C3_NormalizeReference ==
    pc = "done" =>
        \E i \in 1..(Len(input) + 1) : \E j \in (i - 1)..Len(input) :
            LET t == SubSeq(input, i, j)
            IN  /\ IsTrim(input, i, j)
                /\ output = IF t = <<>>
                            THEN <<"h", "t", "t", "p", ":", "/", "/", "e", "x", "a", "m",
                                   "p", "l", "e", ".", "c", "o", "m">>
                            ELSE IF ~HasRun(t, SchemeSep)
                            THEN <<"h", "t", "t", "p", ":", "/", "/">> \o t
                            ELSE t

\* C3 witness: a whitespace-only text was normalized to the default URL.
C3_Witness ==
    /\ pc = "done"
    /\ input # <<>>
    /\ AllWhitespace(input)
    /\ output = DefaultUrl

-----------------------------------------------------------------------------
(* Properties of resolve_dns (SpecResolve) *)

\* C4: when the resolver returns records, resolve_dns returns their addresses
\* without repetition, every address of a record being there, in the order of
\* their first occurrence among the records.
C4_ResolveDedupFirstSeen ==
    (pc = "done" /\ input.answer.ok) =>
        LET addrs == AddressesOf(input.answer.infos)
            ips == output.value
        IN  /\ ~output.raised
            /\ \A i, j \in 1..Len(ips) : i # j => ips[i] # ips[j]
            /\ \A i \in 1..Len(ips) : \E k \in 1..Len(addrs) : addrs[k] = ips[i]
            /\ \A k \in 1..Len(addrs) : \E i \in 1..Len(ips) : ips[i] = addrs[k]
            /\ \A i, j \in 1..Len(ips) :
                  i < j => FirstIndex(addrs, ips[i]) < FirstIndex(addrs, ips[j])

\* C4 witness: three records, the first address repeated by the last, gave two
\* addresses.
C4_Witness ==
    /\ pc = "done"
    /\ input.answer.ok
    /\ Len(input.answer.infos) = 3
    /\ input.answer.infos[1][5][1] = Ip4b
    /\ input.answer.infos[2][5][1] = Ip6a
    /\ input.answer.infos[3][5][1] = Ip4b
    /\ output.value = <<Ip4b, Ip6a>>

\* C5: resolve_dns never raises, and returns the empty sequence whenever the
\* resolver fails.
C5_ResolveNeverRaises ==
    pc = "done" =>
        /\ ~output.raised
        /\ ~input.answer.ok => output.value = <<>>

\* C5 witness: the resolver failed on the empty hostname with an error that is
\* no OSError, and the empty sequence came back.
C5_Witness ==
    /\ pc = "done"
    /\ input.hostname = <<>>
    /\ input.answer = Failed("UnicodeError", BadLabel)
    /\ output = Return(<<>>)

-----------------------------------------------------------------------------
(* Properties of the navigation controller (Spec) *)

\* C6: every explicit navigation makes exactly one view.load call, of the
\* normalized address text, as its last call and after the status was set;
\* when hostname extraction raised, the status holds the error's text.
C6_NavigationAlwaysLoads ==
    Navigated =>
        /\ CallsTo("view.load") = <<Call2("view.load", QUrl(normalize_url(address)))>>
        /\ PositionsOf("status.setText") # {}
        /\ \A i \in PositionsOf("status.setText"), j \in PositionsOf("view.load") : i < j
        /\ status = CallsTo("status.setText")[Len(CallsTo("status.setText"))][2]
        /\ Extraction.raised => HasRun(status, Extraction.msg)

\* C6 witness: Go was pressed on a text whose hostname extraction raises; the
\* status tells the error and the view was asked to load.
C6_Witness ==
    /\ Navigated
    /\ calls[1] = Call2("clicked", "go_btn")
    /\ Extraction.raised
    /\ status = DnsErrorLabel \o InvalidIPv6
    /\ Len(CallsTo("view.load")) = 1

\* C7 as stated: after a navigation whose hostname extraction succeeds the
\* status is exactly "<hostname> -> <ip1>, <ip2>, ..." or "<hostname> -> (no result)".
C7_StatusAsStated ==
    (Navigated /\ ~Extraction.raised) =>
        status = ExtractedHost \o <<" ", "-", ">", " ">>
                 \o IF ResolvedIps # <<>>
                    THEN join(<<",", " ">>, ResolvedIps)
                    ELSE <<"(", "n", "o", " ", "r", "e", "s", "u", "l", "t", ")">>

\* C7 amended: after a navigation whose hostname extraction succeeds the status
\* is exactly "DNS: <hostname> → <ip1>, <ip2>, ..." (the addresses in resolution
\* order, joined by ", ") or "DNS: <hostname> → (no result)".
C7_StatusWithDnsLabel ==
    (Navigated /\ ~Extraction.raised) =>
        status = <<"D", "N", "S", ":", " ">> \o ExtractedHost \o <<" ", "→", " ">>
                 \o IF ResolvedIps # <<>>
                    THEN join(<<",", " ">>, ResolvedIps)
                    ELSE <<"(", "n", "o", " ", "r", "e", "s", "u", "l", "t", ")">>

\* C7 witness: "example.com" was typed and Go pressed; the view loads
\* "http://example.com" and the status lists the two addresses found.
C7_Witness ==
    /\ Navigated
    /\ calls[1] = Call2("clicked", "go_btn")
    /\ address = ExampleHost
    /\ CallsTo("view.load") = <<Call2("view.load", QUrl(HttpPrefix \o ExampleHost))>>
    /\ status = DnsLabel \o ExampleHost \o Arrow \o Ip4b \o <<",", " ">> \o Ip4a

\* C8: a urlChanged event sets the address text to the event's URL string and
\* does nothing else: status and title stay, and no lookup, status or load call
\* is made.
C8_UrlChangedOnlySetsAddress ==
    [][ calls'[1][1] = "urlChanged" =>
            /\ address' = toString(calls'[1][2])
            /\ status' = status
            /\ title' = title
            /\ \A i \in 2..Len(calls') : calls'[i][1] = "address.setText" ]_vars

\* C8 witness: the view reported about:blank while the status still tells of
\* example.com.
C8_Witness ==
    /\ pc = "gui"
    /\ Kind = "urlChanged"
    /\ address = <<"a", "b", "o", "u", "t", ":", "b", "l", "a", "n", "k">>
    /\ HasRun(status, ExampleHost)

\* C9: Home, from any state, leaves the address text, the status, the title and
\* the calls that typing the home URL and pressing Go leaves from that state,
\* under the same answer of the resolver.
C9_HomeIsManualEntry ==
    [][ (calls'[1][1] = "clicked" /\ calls'[1][2] = "home_btn") =>
            \E answer \in BrowserAnswers :
                LET typed == HomeUrl    \* the address text once the URL is typed
                    go == Navigation(typed, answer)    \* load_from_address on it
                IN  /\ address' = typed
                    /\ status' = IF go.returned THEN go.status ELSE status
                    /\ title' = title
                    /\ SelectSeq(Tail(calls'), LAMBDA c : c[1] # "address.setText")
                         = go.calls ]_vars

\* C9 witness: Home was activated, not at start-up but after a loadProgress had
\* changed the title; the address is the home URL and the view was asked to load it.
C9_Witness ==
    /\ pc = "gui"
    /\ Kind = "clicked"
    /\ calls[1][2] = "home_btn"
    /\ address = HomeUrl
    /\ title # PyBrowserTitle
    /\ CallsTo("view.load") = <<Call2("view.load", QUrl(HomeUrl))>>

\* C10: the title is "PyBrowser" when no loadProgress occurred or the last one
\* told 100, and otherwise shows the percentage of the last one; no other
\* handler changes it.
C10_TitleFollowsProgress ==
    pc = "gui" =>
        title = IF progress = NoProgress \/ progress = 100
                THEN <<"P", "y", "B", "r", "o", "w", "s", "e", "r">>
                ELSE <<"P", "y", "B", "r", "o", "w", "s", "e", "r", " ", " ", " ">>
                     \o str_int(progress) \o <<"%">>

\* C10 witness: after loadProgress(42) a navigation ran and the title still
\* shows 42%.
C10_Witness ==
    /\ Navigated
    /\ progress = 42
    /\ HasRun(title, <<"4", "2", "%">>)


=============================================================================
